---- MODULE Spec2Model ----
(***************************************************************************)
(* femtoGPT: the reverse-mode automatic-differentiation graph              *)
(* (src/src/graph/mod.rs) with the operations Add, Coeff and Mask          *)
(* (src/src/funcs/*.rs).                                                   *)
(*                                                                         *)
(* Tensor ids are the Rust usize indices, 0-based; slot id lives at        *)
(* position id + 1 of the TLA+ sequences tensors, grads and names.         *)
(* A tensor is [shape, blob]: its dimensions and its row-major elements.   *)
(* Elements are small integers, which f32 represents exactly.              *)
(***************************************************************************)
EXTENDS Integers, Sequences, FiniteSets, TLC

\* ------------------------------------------------------------------ bounds
MaxTensors == 4
MaxSteps == 3
GradSteps == 4
BwdSteps == 6
TruncSteps == 4
FwdSteps == 5
EmbedSteps == 5
ScenarioSteps == 5
FuncSteps == 2
AccumSteps == 3

\* ------------------------------------------------- tensor value store
\* (crate::tensor, consumed by the graph: dense arrays, broadcasting
\*  arithmetic, slices)

Tn(shape, blob) == [shape |-> shape, blob |-> blob]

RECURSIVE Prod(_)
Prod(s) == IF s = <<>> THEN 1 ELSE Head(s) * Prod(Tail(s))

RECURSIVE SeqSum(_)
SeqSum(s) == IF s = <<>> THEN 0 ELSE Head(s) + SeqSum(Tail(s))

Max2(a, b) == IF a >= b THEN a ELSE b

Dim(t) == Len(t.shape)

Size(t) == Len(t.blob)

Zeros(shape) == Tn(shape, [i \in 1..Prod(shape) |-> 0])

Fill(t, v) == Tn(t.shape, [i \in 1..Len(t.blob) |-> v])

\* results of the fallible tensor operations: ok with a tensor, or a
\* TensorError
NoTensor == Tn(<<>>, <<>>)

TOk(t) == [ok |-> TRUE, t |-> t]

TErr == [ok |-> FALSE, t |-> NoTensor]

\* dimension k (1-based, counted from the left) of shape s once s is
\* right-aligned in a shape of rank r; 1 where s has no such dimension
PadDim(s, r, k) == IF k <= r - Len(s) THEN 1 ELSE s[k - (r - Len(s))]

BroadcastRank(a, b) == Max2(Len(a), Len(b))

BroadcastOk(a, b) ==
    \A k \in 1..BroadcastRank(a, b) :
        LET x == PadDim(a, BroadcastRank(a, b), k)
            y == PadDim(b, BroadcastRank(a, b), k)
        IN  x = y \/ x = 1 \/ y = 1

BroadcastShape(a, b) ==
    [k \in 1..BroadcastRank(a, b) |->
        LET x == PadDim(a, BroadcastRank(a, b), k)
            y == PadDim(b, BroadcastRank(a, b), k)
        IN  IF x = 1 THEN y ELSE x]

\* coordinate along dimension k of the 0-based flat index i in shape s
Coord(i, s, k) == (i \div Prod(SubSeq(s, k + 1, Len(s)))) % s[k]

\* 0-based flat index, in an operand of shape a, of the element that is
\* broadcast to the 0-based flat index i of the result shape s
OperandIndex(i, s, a) ==
    LET off == Len(s) - Len(a)
    IN  SeqSum([j \in 1..Len(a) |->
            (IF a[j] = 1 THEN 0 ELSE Coord(i, s, j + off))
                * Prod(SubSeq(a, j + 1, Len(a)))])

\* the elementwise operation named op, on two elements
Apply(op, x, y) == IF op = "add" THEN x + y ELSE x * y

Binary(a, b, op) ==
    IF a.shape = b.shape
    THEN TOk(Tn(a.shape,
                [i \in 1..Len(a.blob) |-> Apply(op, a.blob[i], b.blob[i])]))
    ELSE IF ~BroadcastOk(a.shape, b.shape) THEN TErr
    ELSE LET s == BroadcastShape(a.shape, b.shape)
         IN  TOk(Tn(s, [i \in 1..Prod(s) |->
                 Apply(op, a.blob[OperandIndex(i - 1, s, a.shape) + 1],
                           b.blob[OperandIndex(i - 1, s, b.shape) + 1])]))

TAdd(a, b) == Binary(a, b, "add")

TMul(a, b) == Binary(a, b, "mul")

\* keep_right(dims) followed by inners(): the slices of t that keep its
\* last `dims` dimensions, in order; fails when t has fewer dimensions
SliceShape(t, dims) == SubSeq(t.shape, Dim(t) - dims + 1, Dim(t))

Inners(t, dims) ==
    LET ss == Prod(SliceShape(t, dims))
        n == IF ss = 0 THEN 0 ELSE Size(t) \div ss
    IN  [j \in 1..n |->
            Tn(SliceShape(t, dims), SubSeq(t.blob, (j - 1) * ss + 1, j * ss))]

\* get(i) on a tensor: its i-th slice along the first dimension
Row(t, i) == Inners(t, Dim(t) - 1)[i + 1]

RowOk(t, i) == Dim(t) >= 1 /\ i < t.shape[1]

RECURSIVE Flatten(_)
Flatten(ss) == IF ss = <<>> THEN <<>> ELSE Head(ss) \o Flatten(Tail(ss))

\* ------------------------------------------------- operations (funcs)
\* a Box<dyn Function>: its variant and its immutable configuration
AddF == [kind |-> "Add", coeff |-> 0, mask |-> NoTensor, value |-> 0]

CoeffF(k) == [kind |-> "Coeff", coeff |-> k, mask |-> NoTensor, value |-> 0]

MaskF(m, v) == [kind |-> "Mask", coeff |-> 0, mask |-> m, value |-> v]

\* !mask, as f32
MaskRev(m) == Tn(m.shape, [i \in 1..Len(m.blob) |-> 1 - m.blob[i]])

\* outcome of Function::run: "ok" with the tensor, "err" (a TensorError),
\* or "panic" (an out-of-bounds index into the input slice)
FOk(t) == [kind |-> "ok", t |-> t]

FErr == [kind |-> "err", t |-> NoTensor]

FPanic == [kind |-> "panic", t |-> NoTensor]

FromT(r) == IF r.ok THEN FOk(r.t) ELSE FErr

AddRun(inps, training) ==
    IF Len(inps) < 2 THEN FPanic ELSE FromT(TAdd(inps[1], inps[2]))


\* Add::grad that returns a gradient for the first input only
AddGradRuleFirstOnly(inps, out_grad) == [kind |-> "ok", ts |-> <<out_grad>>]

AddGradRule(inps, out_grad) == [kind |-> "ok", ts |-> <<out_grad, out_grad>>]

CoeffRun(f, inps, training) ==
    FOk(Tn(inps[1].shape,
           [i \in 1..Len(inps[1].blob) |-> inps[1].blob[i] * f.coeff]))

CoeffGradRule(f, inps, out_grad) ==
    [kind |-> "ok",
     ts |-> << Tn(out_grad.shape,
                  [i \in 1..Len(out_grad.blob) |-> out_grad.blob[i] * f.coeff]) >>]

\* one slice of the input zipped with the mask's elements
MaskSlice(f, t) ==
    Tn(t.shape, [i \in 1..Len(t.blob) |->
                    IF f.mask.blob[i] = 1 THEN f.value ELSE t.blob[i]])

MaskRun(f, inps, training) ==
    LET x == inps[1]
        d == Dim(f.mask)
    IN  IF Dim(x) < d THEN FErr
        ELSE IF Prod(SliceShape(x, d)) > Size(f.mask) THEN FErr
        ELSE LET sl == Inners(x, d)
             IN  FOk(Tn(x.shape,
                        Flatten([j \in 1..Len(sl) |-> MaskSlice(f, sl[j]).blob])))

MaskGradRule(f, inps, out_grad) ==
    LET r == TMul(out_grad, MaskRev(f.mask))
    IN  IF r.ok THEN [kind |-> "ok", ts |-> << r.t >>]
        ELSE [kind |-> "err", ts |-> <<>>]

\* dynamic dispatch on the operation instance
Run(f, inps, training) ==
    CASE f.kind = "Add" -> AddRun(inps, training)
      [] f.kind = "Coeff" -> CoeffRun(f, inps, training)
      [] OTHER -> MaskRun(f, inps, training)

GradRule(f, inps, out_grad) ==
    CASE f.kind = "Add" -> AddGradRule(inps, out_grad)
      [] f.kind = "Coeff" -> CoeffGradRule(f, inps, out_grad)
      [] OTHER -> MaskGradRule(f, inps, out_grad)

\* ------------------------------------------------------------ the graph
\* A graph value g is [tensors, grads, names, computations]; computations
\* is the BTreeMap from output id to [inps, func].
\* The outcome of a graph method: the graph it leaves, how it ended
\* ("ok", "TensorError", "TensorNotFound", or "panic" for an index out of
\* bounds), the id a TensorNotFound carries, and what it returned; for a
\* pass, visited lists the records whose rule was invoked, in order, and
\* reads the output gradient each rule of a backward pass was given.
Out(g, kind) ==
    [g |-> g, kind |-> kind, nf |-> <<>>, retId |-> <<>>, retT |-> <<>>,
     retName |-> <<>>, visited |-> <<>>, reads |-> <<>>]

NotFound(g, id) == [Out(g, "TensorNotFound") EXCEPT !.nf = <<id>>]

NewGraph ==
    [tensors |-> <<>>, grads |-> <<>>, names |-> <<>>,
     computations |-> [i \in {} |-> 0]]

\* Vec::get / indexing by a 0-based id
Has(v, id) == id >= 0 /\ id < Len(v)

At(v, id) == v[id + 1]

Put(v, id, x) == [v EXCEPT ![id + 1] = x]

\* alloc that forgets names.push
AllocNoName(g, t, name) ==
    [Out([g EXCEPT !.grads = Append(g.grads, Zeros(t.shape)),
                   !.tensors = Append(g.tensors, t)], "ok")
        EXCEPT !.retId = <<Len(g.tensors)>>]


\* alloc that returns the arena length after the push
AllocLenAfter(g, t, name) ==
    [Out([g EXCEPT !.grads = Append(g.grads, Zeros(t.shape)),
                   !.tensors = Append(g.tensors, t),
                   !.names = Append(g.names, name)], "ok")
        EXCEPT !.retId = <<Len(g.tensors) + 1>>]

Alloc(g, t, name) ==
    [Out([g EXCEPT !.grads = Append(g.grads, Zeros(t.shape)),
                   !.tensors = Append(g.tensors, t),
                   !.names = Append(g.names, name)], "ok")
        EXCEPT !.retId = <<Len(g.tensors)>>]

Load(g, tensor_id, t) ==
    IF ~Has(g.tensors, tensor_id) THEN Out(g, "panic")
    ELSE Out([g EXCEPT !.tensors = Put(g.tensors, tensor_id, t)], "ok")

LoadGrad(g, tensor_id, t) ==
    IF ~Has(g.grads, tensor_id) THEN Out(g, "panic")
    ELSE Out([g EXCEPT !.grads = Put(g.grads, tensor_id, t)], "ok")

Get(g, id) ==
    IF Has(g.tensors, id)
    THEN [Out(g, "ok") EXCEPT !.retT = <<At(g.tensors, id)>>]
    ELSE NotFound(g, id)

\* get_grad that reads the tensor arena
GetGradFromTensors(g, id) ==
    IF Has(g.tensors, id)
    THEN [Out(g, "ok") EXCEPT !.retT = <<At(g.tensors, id)>>]
    ELSE NotFound(g, id)

GetGrad(g, id) ==
    IF Has(g.grads, id)
    THEN [Out(g, "ok") EXCEPT !.retT = <<At(g.grads, id)>>]
    ELSE NotFound(g, id)

NameOf(g, id) ==
    IF Has(g.names, id)
    THEN [Out(g, "ok") EXCEPT !.retName = <<At(g.names, id)>>]
    ELSE NotFound(g, id)

\* input.map(0, |s| embedding.get(s.scalar()?)): one row per index
EmbedRows(embedding, input) ==
    IF \E i \in 1..Len(input.blob) : ~RowOk(embedding, input.blob[i]) THEN TErr
    ELSE TOk(Tn(input.shape \o Tail(embedding.shape),
                Flatten([i \in 1..Len(input.blob) |->
                            Row(embedding, input.blob[i]).blob])))


\* embed that records the lookup as a computation producing tensor_id
EmbedRecorded(g, tensor_id, embedding_id, input) ==
    IF ~Has(g.tensors, embedding_id) THEN NotFound(g, embedding_id)
    ELSE LET r == EmbedRows(At(g.tensors, embedding_id), input)
         IN  IF ~r.ok THEN Out(g, "TensorError")
             ELSE [Load(g, tensor_id, r.t) EXCEPT !.g.computations =
                      [k \in DOMAIN g.computations \cup {tensor_id} |->
                          IF k = tensor_id
                          THEN [inps |-> <<embedding_id>>, func |-> AddF]
                          ELSE g.computations[k]]]

Embed(g, tensor_id, embedding_id, input) ==
    IF ~Has(g.tensors, embedding_id) THEN NotFound(g, embedding_id)
    ELSE LET r == EmbedRows(At(g.tensors, embedding_id), input)
         IN  IF ~r.ok THEN Out(g, "TensorError")
             ELSE Load(g, tensor_id, r.t)

\* zero_grad that rebuilds each gradient from its tensor's shape
ZeroGradFromTensors(g) ==
    Out([g EXCEPT !.grads =
            [i \in 1..Len(g.grads) |-> Zeros(g.tensors[i].shape)]], "ok")

ZeroGrad(g) ==
    Out([g EXCEPT !.grads = [i \in 1..Len(g.grads) |-> Fill(g.grads[i], 0)]],
        "ok")

\* add_grad that stores the incoming gradient instead of summing it
AddGradOverwrite(g, id, add) ==
    IF ~Has(g.tensors, id) THEN NotFound(g, id)
    ELSE IF ~Has(g.grads, id) THEN NotFound(g, id)
    ELSE Out([g EXCEPT !.grads = Put(g.grads, id, add)], "ok")

\* the loop of add_grad: grad = (grad + t)? for each slice, in order
RECURSIVE AddSlices(_, _)
AddSlices(grad, slices) ==
    IF slices = <<>> THEN [ok |-> TRUE, t |-> grad]
    ELSE LET r == TAdd(grad, Head(slices))
         IN  IF ~r.ok THEN [ok |-> FALSE, t |-> grad]
             ELSE AddSlices(r.t, Tail(slices))

AddGrad(g, id, add) ==
    IF ~Has(g.tensors, id) THEN NotFound(g, id)
    ELSE IF ~Has(g.grads, id) THEN NotFound(g, id)
    ELSE LET shape == At(g.tensors, id).shape
             r == IF Dim(add) >= Len(shape)
                  THEN AddSlices(At(g.grads, id), Inners(add, Len(shape)))
                  ELSE LET q == TAdd(At(g.grads, id), add)
                       IN  [ok |-> q.ok,
                            t |-> IF q.ok THEN q.t ELSE At(g.grads, id)]
         IN  Out([g EXCEPT !.grads = Put(g.grads, id, r.t)],
                 IF r.ok THEN "ok" ELSE "TensorError")

\* keys of the BTreeMap in ascending order, and reversed
RECURSIVE AscKeys(_)
AscKeys(S) ==
    IF S = {} THEN <<>>
    ELSE LET m == CHOOSE x \in S : \A y \in S : x <= y
         IN  <<m>> \o AscKeys(S \ {m})

RECURSIVE Reverse(_)
Reverse(s) == IF s = <<>> THEN <<>> ELSE Reverse(Tail(s)) \o <<Head(s)>>

DescKeys(S) == Reverse(AscKeys(S))

\* the first id of ids that the arena v does not hold, as a sequence
FirstMissing(v, ids) ==
    LET bad == {j \in 1..Len(ids) : ~Has(v, ids[j])}
    IN  IF bad = {} THEN <<>>
        ELSE <<ids[CHOOSE j \in bad : \A k \in bad : j <= k]>>

Gather(v, ids) == [j \in 1..Len(ids) |-> At(v, ids[j])]

\* ---- Loss capability: run(output) gives a loss tensor of `size` elements
\* and a gradient shaped like output (here size * (c + position)), or fails
LossGrad(loss, output) ==
    Tn(output.shape,
       [i \in 1..Len(output.blob) |-> loss.size * (loss.c + i - 1)])

\* grad * Tensor::scalar(1 / loss.size())
ScaleMean(grad, size) ==
    Tn(grad.shape, [i \in 1..Len(grad.blob) |-> grad.blob[i] \div size])

\* for (id, grad) in comp.inps.zip(grads) { self.add_grad(id, grad)? }
RECURSIVE Accumulate(_, _, _)
Accumulate(g, ids, ts) ==
    IF ids = <<>> \/ ts = <<>> THEN Out(g, "ok")
    ELSE LET a == AddGrad(g, Head(ids), Head(ts))
         IN  IF a.kind # "ok" THEN a
             ELSE Accumulate(a.g, Tail(ids), Tail(ts))

\* the loop of backward_all with the limit test off by one (i > limit)
RECURSIVE BackwardLoopOneMore(_, _, _, _, _)
BackwardLoopOneMore(g, recs, i, limit, visited) ==
    IF recs = <<>> THEN [Out(g, "ok") EXCEPT !.visited = visited]
    ELSE IF limit # <<>> /\ i > limit[1]
    THEN [Out(g, "ok") EXCEPT !.visited = visited]
    ELSE LET id == Head(recs)
             comp == g.computations[id]
         IN  IF FirstMissing(g.tensors, comp.inps) # <<>> \/ ~Has(g.grads, id)
             THEN [Out(g, "panic") EXCEPT !.visited = visited]
             ELSE LET gr == GradRule(comp.func, Gather(g.tensors, comp.inps),
                                     At(g.grads, id))
                      seen == Append(visited, id)
                      read == <<At(g.grads, id)>>
                  IN  IF gr.kind # "ok"
                      THEN [Out(g, "TensorError") EXCEPT !.visited = seen,
                                                         !.reads = read]
                      ELSE LET a == Accumulate(g, comp.inps, gr.ts)
                           IN  IF a.kind # "ok"
                               THEN [a EXCEPT !.visited = seen,
                                              !.reads = read]
                               ELSE LET o == BackwardLoopOneMore(a.g, Tail(recs),
                                                i + 1, limit, seen)
                                    IN  [o EXCEPT !.reads = read \o o.reads]

\* the loop of backward_all over computations.iter().rev().enumerate();
\* recs are the keys still to come, i the enumerate index, visited the
\* records whose grad rule has been invoked
RECURSIVE BackwardLoop(_, _, _, _, _)
BackwardLoop(g, recs, i, limit, visited) ==
    IF recs = <<>> THEN [Out(g, "ok") EXCEPT !.visited = visited]
    ELSE IF limit # <<>> /\ i >= limit[1]
    THEN [Out(g, "ok") EXCEPT !.visited = visited]
    ELSE LET id == Head(recs)
             comp == g.computations[id]
         IN  IF FirstMissing(g.tensors, comp.inps) # <<>> \/ ~Has(g.grads, id)
             THEN [Out(g, "panic") EXCEPT !.visited = visited]
             ELSE LET gr == GradRule(comp.func, Gather(g.tensors, comp.inps),
                                     At(g.grads, id))
                      seen == Append(visited, id)
                      read == <<At(g.grads, id)>>
                  IN  IF gr.kind # "ok"
                      THEN [Out(g, "TensorError") EXCEPT !.visited = seen,
                                                         !.reads = read]
                      ELSE LET a == Accumulate(g, comp.inps, gr.ts)
                           IN  IF a.kind # "ok"
                               THEN [a EXCEPT !.visited = seen,
                                              !.reads = read]
                               ELSE LET o == BackwardLoop(a.g, Tail(recs),
                                                i + 1, limit, seen)
                                    IN  [o EXCEPT !.reads = read \o o.reads]


\* backward_all that iterates the records without rev()
BackwardAllAscending(g, id, loss, limit) ==
    IF ~Has(g.tensors, id) THEN NotFound(g, id)
    ELSE IF loss.fails THEN Out(g, "TensorError")
    ELSE LET seed == ScaleMean(LossGrad(loss, At(g.tensors, id)), loss.size)
             a == AddGrad(g, id, seed)
         IN  IF a.kind # "ok" THEN a
             ELSE BackwardLoop(a.g, AscKeys(DOMAIN a.g.computations), 0,
                               limit, <<>>)

\* limit is <<>> for None and <<k>> for Some(k)
BackwardAll(g, id, loss, limit) ==
    IF ~Has(g.tensors, id) THEN NotFound(g, id)
    ELSE IF loss.fails THEN Out(g, "TensorError")
    ELSE LET seed == ScaleMean(LossGrad(loss, At(g.tensors, id)), loss.size)
             a == AddGrad(g, id, seed)
         IN  IF a.kind # "ok" THEN a
             ELSE BackwardLoop(a.g, DescKeys(DOMAIN a.g.computations), 0,
                               limit, <<>>)

\* the loop of forward storing each result in the slot of the record's
\* first input instead of its output
RECURSIVE ForwardLoopIntoInput(_, _, _, _)
ForwardLoopIntoInput(g, recs, training, visited) ==
    IF recs = <<>> THEN [Out(g, "ok") EXCEPT !.visited = visited]
    ELSE LET out == Head(recs)
             c == g.computations[out]
             miss == FirstMissing(g.tensors, c.inps)
         IN  IF miss # <<>>
             THEN [NotFound(g, miss[1]) EXCEPT !.visited = visited]
             ELSE LET r == Run(c.func, Gather(g.tensors, c.inps), training)
                      seen == Append(visited, out)
                  IN  IF r.kind = "err"
                      THEN [Out(g, "TensorError") EXCEPT !.visited = seen]
                      ELSE IF r.kind = "panic" \/ ~Has(g.tensors, out)
                      THEN [Out(g, "panic") EXCEPT !.visited = seen]
                      ELSE ForwardLoopIntoInput(
                               [g EXCEPT !.tensors =
                                   Put(g.tensors, c.inps[1], r.t)],
                               Tail(recs), training, seen)

\* the loop of forward over computations.iter_mut(), ascending
RECURSIVE ForwardLoop(_, _, _, _)
ForwardLoop(g, recs, training, visited) ==
    IF recs = <<>> THEN [Out(g, "ok") EXCEPT !.visited = visited]
    ELSE LET out == Head(recs)
             c == g.computations[out]
             miss == FirstMissing(g.tensors, c.inps)
         IN  IF miss # <<>>
             THEN [NotFound(g, miss[1]) EXCEPT !.visited = visited]
             ELSE LET r == Run(c.func, Gather(g.tensors, c.inps), training)
                      seen == Append(visited, out)
                  IN  IF r.kind = "err"
                      THEN [Out(g, "TensorError") EXCEPT !.visited = seen]
                      ELSE IF r.kind = "panic" \/ ~Has(g.tensors, out)
                      THEN [Out(g, "panic") EXCEPT !.visited = seen]
                      ELSE ForwardLoop(
                               [g EXCEPT !.tensors = Put(g.tensors, out, r.t)],
                               Tail(recs), training, seen)


\* forward that replays the records from the largest id down
ForwardDescending(g, training) ==
    ForwardLoop(g, DescKeys(DOMAIN g.computations), training, <<>>)


\* forward that gives the graph back as it found it when a rule fails
ForwardAllOrNothing(g, training) ==
    LET o == ForwardLoop(g, AscKeys(DOMAIN g.computations), training, <<>>)
    IN  IF o.kind = "ok" THEN o ELSE [o EXCEPT !.g = g]

Forward(g, training) ==
    ForwardLoop(g, AscKeys(DOMAIN g.computations), training, <<>>)

\* call that takes the record's key before the output is pushed
CallStaleKey(g, f, tensor_ids) ==
    LET miss == FirstMissing(g.tensors, tensor_ids)
    IN  IF miss # <<>> THEN NotFound(g, miss[1])
        ELSE LET r == Run(f, Gather(g.tensors, tensor_ids), FALSE)
             IN  IF r.kind = "err" THEN Out(g, "TensorError")
                 ELSE IF r.kind = "panic" THEN Out(g, "panic")
                 ELSE LET a == Alloc(g, r.t, "")
                          child == Len(g.tensors) - 1
                      IN  [a EXCEPT !.g.computations =
                              [k \in DOMAIN g.computations \cup {child} |->
                                  IF k = child
                                  THEN [inps |-> tensor_ids, func |-> f]
                                  ELSE g.computations[k]]]


\* call that replaces the map of records by the new record alone
CallKeepsOnlyNewest(g, f, tensor_ids) ==
    LET miss == FirstMissing(g.tensors, tensor_ids)
    IN  IF miss # <<>> THEN NotFound(g, miss[1])
        ELSE LET r == Run(f, Gather(g.tensors, tensor_ids), FALSE)
             IN  IF r.kind = "err" THEN Out(g, "TensorError")
                 ELSE IF r.kind = "panic" THEN Out(g, "panic")
                 ELSE LET a == Alloc(g, r.t, "")
                          child == a.retId[1]
                      IN  [a EXCEPT !.g.computations =
                              [k \in {child} |->
                                  [inps |-> tensor_ids, func |-> f]]]


\* call that pushes the output slot before it runs the forward rule
CallAllocFirst(g, f, tensor_ids) ==
    LET miss == FirstMissing(g.tensors, tensor_ids)
    IN  IF miss # <<>> THEN NotFound(g, miss[1])
        ELSE LET r == Run(f, Gather(g.tensors, tensor_ids), FALSE)
                 a == Alloc(g, r.t, "")
                 child == a.retId[1]
             IN  IF r.kind = "err" THEN Out(a.g, "TensorError")
                 ELSE IF r.kind = "panic" THEN Out(g, "panic")
                 ELSE [a EXCEPT !.g.computations =
                          [k \in DOMAIN g.computations \cup {child} |->
                              IF k = child
                              THEN [inps |-> tensor_ids, func |-> f]
                              ELSE g.computations[k]]]

Call(g, f, tensor_ids) ==
    LET miss == FirstMissing(g.tensors, tensor_ids)
    IN  IF miss # <<>> THEN NotFound(g, miss[1])
        ELSE LET r == Run(f, Gather(g.tensors, tensor_ids), FALSE)
             IN  IF r.kind = "err" THEN Out(g, "TensorError")
                 ELSE IF r.kind = "panic" THEN Out(g, "panic")
                 ELSE LET a == Alloc(g, r.t, "")
                          child == a.retId[1]
                      IN  [a EXCEPT !.g.computations =
                              [k \in DOMAIN g.computations \cup {child} |->
                                  IF k = child
                                  THEN [inps |-> tensor_ids, func |-> f]
                                  ELSE g.computations[k]]]

\* ---- Optimizer capability: step(params, grads, lr), a plain gradient
\* step param = (param + grad * -lr)? applied to each pair in order
RECURSIVE Step(_, _, _)
Step(g, ids, lr) ==
    IF ids = <<>> THEN Out(g, "ok")
    ELSE LET id == Head(ids)
             d == Tn(At(g.grads, id).shape,
                     [i \in 1..Len(At(g.grads, id).blob) |->
                         (0 - lr) * At(g.grads, id).blob[i]])
             r == TAdd(At(g.tensors, id), d)
         IN  IF ~r.ok THEN Out(g, "TensorError")
             ELSE Step([g EXCEPT !.tensors = Put(g.tensors, id, r.t)],
                       Tail(ids), lr)

Optimize(g, params, lr) ==
    LET ids == AscKeys({id \in params : Has(g.tensors, id)})
        miss == FirstMissing(g.grads, ids)
    IN  IF miss # <<>> THEN NotFound(g, miss[1])
        ELSE Step(g, ids, lr)

\* ------------------------------------------------------- state machine
VARIABLES
    tensors,        \* Graph.tensors
    grads,          \* Graph.grads
    names,          \* Graph.names
    computations,   \* Graph.computations
    last,           \* the last call on the graph: its arguments, its
                    \* outcome and the graph it was made on
    steps           \* number of calls made so far

vars == <<tensors, grads, names, computations, last, steps>>

G == [tensors |-> tensors, grads |-> grads, names |-> names,
      computations |-> computations]

\* ---- the inputs the callers draw from
Values == {Tn(<<3>>, <<1, 2, 4>>), Tn(<<2>>, <<1, 3>>), Tn(<<2, 1>>, <<1, 2>>)}

Names == {"w"}

Funcs == {AddF, CoeffF(2), CoeffF(3), MaskF(Tn(<<2>>, <<1, 0>>), 5)}

\* input lists over the ids S: one id, and for Add also two
InputLists(f, S) ==
    {<<a>> : a \in S}
        \cup (IF f.kind = "Add" THEN {<<a, b>> : a \in S, b \in S}
              ELSE {})

Losses ==
    {[size |-> 1, c |-> 1, fails |-> FALSE],
     [size |-> 2, c |-> 2, fails |-> FALSE],
     [size |-> 1, c |-> 1, fails |-> TRUE]}

Limits(n) == {<<>>} \cup {<<k>> : k \in 0..n}

\* every id of the arena, and one that is out of range
Ids == 0..Len(tensors)

ValidIds == 0..(Len(tensors) - 1)

IndexTensors == {Tn(<<1>>, <<0>>), Tn(<<2>>, <<1, 0>>)}

Rates == {1}

NoArgs ==
    [id |-> <<>>, t |-> <<>>, ids |-> <<>>, f |-> <<>>, limit |-> <<>>,
     training |-> FALSE, loss |-> <<>>, params |-> {}, name |-> "",
     inps |-> <<>>, out_grad |-> <<>>]

\* the record of a call: op and args name it, o is its outcome, pre the
\* graph it was made on; again says the call before it was the same call
\* (same op, same id, same flag) and prevKind how that call ended;
\* afterZero says the call before it was zero_grad, and afterEmbed holds
\* the output and table ids of the call before it when that was a
\* successful embed
Record(op, args, o) ==
    [op |-> op, args |-> args, kind |-> o.kind, nf |-> o.nf,
     retId |-> o.retId, retT |-> o.retT, retName |-> o.retName,
     visited |-> o.visited, reads |-> o.reads, pre |-> G,
     again |-> (last.op = op /\ last.args.id = args.id
                  /\ last.args.training = args.training),
     prevKind |-> last.kind,
     afterZero |-> (last.op = "zero_grad"),
     afterEmbed |-> IF last.op = "embed" /\ last.kind = "ok"
                    THEN last.args.id \o last.args.ids ELSE <<>>]

\* a call with outcome o: the graph becomes o.g
Commit(op, args, outcome) ==
    \E o \in {outcome} :
        /\ tensors' = o.g.tensors
        /\ grads' = o.g.grads
        /\ names' = o.g.names
        /\ computations' = o.g.computations
        /\ last' = Record(op, args, o)
        /\ steps' = steps + 1

\* the process is alive (no panic so far) and the call budget is not spent
Live(budget) == last.kind # "panic" /\ steps < budget

Init ==
    /\ tensors = NewGraph.tensors
    /\ grads = NewGraph.grads
    /\ names = NewGraph.names
    /\ computations = NewGraph.computations
    /\ last = [op |-> "new", args |-> NoArgs, kind |-> "ok", nf |-> <<>>,
               retId |-> <<>>, retT |-> <<>>, retName |-> <<>>,
               visited |-> <<>>, reads |-> <<>>, pre |-> NewGraph,
               again |-> FALSE,
               prevKind |-> "ok", afterZero |-> FALSE, afterEmbed |-> <<>>]
    /\ steps = 0

\* ---- one step per graph method, with the inputs drawn from given sets
AllocOf(vals) ==
    /\ Len(tensors) < MaxTensors
    /\ \E t \in vals, name \in Names :
        Commit("alloc", [NoArgs EXCEPT !.t = <<t>>, !.name = name],
               Alloc(G, t, name))

CallOf(funcs, ids) ==
    /\ Len(tensors) < MaxTensors
    /\ \E f \in funcs : \E inps \in InputLists(f, ids) :
        Commit("call", [NoArgs EXCEPT !.f = <<f>>, !.ids = inps],
               Call(G, f, inps))

LoadOf(ids, vals) ==
    \E id \in ids, t \in vals :
        Commit("load", [NoArgs EXCEPT !.id = <<id>>, !.t = <<t>>],
               Load(G, id, t))

LoadGradOf(ids, vals) ==
    \E id \in ids, t \in vals :
        Commit("load_grad", [NoArgs EXCEPT !.id = <<id>>, !.t = <<t>>],
               LoadGrad(G, id, t))

AddGradOf(ids, vals) ==
    \E id \in ids, t \in vals :
        Commit("add_grad", [NoArgs EXCEPT !.id = <<id>>, !.t = <<t>>],
               AddGrad(G, id, t))

BackwardAllOf(ids, losses, limits) ==
    \E id \in ids, loss \in losses, limit \in limits :
        Commit("backward_all",
               [NoArgs EXCEPT !.id = <<id>>, !.loss = <<loss>>,
                              !.limit = limit],
               BackwardAll(G, id, loss, limit))

ZeroGradStep == Commit("zero_grad", NoArgs, ZeroGrad(G))

ForwardStep ==
    \E training \in BOOLEAN :
        Commit("forward", [NoArgs EXCEPT !.training = training],
               Forward(G, training))

\* ---- Spec: any sequence of calls, any arguments
DoAlloc == Live(MaxSteps) /\ AllocOf(Values)

DoCall == Live(MaxSteps) /\ CallOf(Funcs, Ids)

DoLoad == Live(MaxSteps) /\ LoadOf(Ids, Values)

DoLoadGrad == Live(MaxSteps) /\ LoadGradOf(Ids, Values)

DoEmbed ==
    /\ Live(MaxSteps)
    /\ \E id \in Ids, e \in Ids, x \in IndexTensors :
        Commit("embed", [NoArgs EXCEPT !.id = <<id>>, !.ids = <<e>>, !.t = <<x>>],
               Embed(G, id, e, x))

DoZeroGrad == Live(MaxSteps) /\ ZeroGradStep

DoAddGrad == Live(MaxSteps) /\ AddGradOf(Ids, Values)

DoGet ==
    /\ Live(MaxSteps)
    /\ \E id \in Ids :
        Commit("get", [NoArgs EXCEPT !.id = <<id>>], Get(G, id))

DoGetGrad ==
    /\ Live(MaxSteps)
    /\ \E id \in Ids :
        Commit("get_grad", [NoArgs EXCEPT !.id = <<id>>], GetGrad(G, id))

DoNameOf ==
    /\ Live(MaxSteps)
    /\ \E id \in Ids :
        Commit("name_of", [NoArgs EXCEPT !.id = <<id>>], NameOf(G, id))

DoBackwardAll ==
    Live(MaxSteps) /\ BackwardAllOf(Ids, Losses, Limits(Len(tensors)))

DoForward == Live(MaxSteps) /\ ForwardStep

DoOptimize ==
    /\ Live(MaxSteps)
    /\ \E params \in SUBSET Ids, lr \in Rates :
        Commit("optimize", [NoArgs EXCEPT !.params = params],
               Optimize(G, params, lr))

Next ==
    \/ DoAlloc
    \/ DoCall
    \/ DoLoad
    \/ DoLoadGrad
    \/ DoEmbed
    \/ DoZeroGrad
    \/ DoAddGrad
    \/ DoGet
    \/ DoGetGrad
    \/ DoNameOf
    \/ DoBackwardAll
    \/ DoForward
    \/ DoOptimize

Spec == Init /\ [][Next]_vars

\* ---- SpecGrad: the gradient slots of leaves, written directly
GradAlloc == Live(GradSteps) /\ AllocOf(Values)

GradLoad == Live(GradSteps) /\ LoadOf(ValidIds, Values)

GradLoadGrad == Live(GradSteps) /\ LoadGradOf(ValidIds, Values)

GradAddGrad == Live(GradSteps) /\ AddGradOf(Ids, Values)

GradZeroGrad == Live(GradSteps) /\ ZeroGradStep

NextGrad ==
    \/ GradAlloc
    \/ GradLoad
    \/ GradLoadGrad
    \/ GradAddGrad
    \/ GradZeroGrad

SpecGrad == Init /\ [][NextGrad]_vars

\* ---- the scenario specifications build a graph (leaves, then derived
\* tensors, with valid input ids) and then run passes over it
Building == last.op \in {"new", "alloc", "call"}

LeafPhase == Building /\ DOMAIN computations = {}

LastId == {Len(tensors) - 1}

SoundLosses == {l \in Losses : ~l.fails}

\* the leaves of two elements
PairValues == {v \in Values : Size(v) = 2}

\* ---- SpecBackward: one leaf, the records built on it, and untruncated
\* backward passes from the output
BwdAlloc == Live(BwdSteps) /\ Len(tensors) = 0 /\ AllocOf(PairValues)

BwdCall == Live(BwdSteps) /\ Building /\ CallOf(Funcs, ValidIds)

BwdZeroGrad == Live(BwdSteps) /\ Len(tensors) > 0 /\ ZeroGradStep

BwdBackwardAll ==
    /\ Live(BwdSteps) /\ Len(tensors) > 0
    /\ BackwardAllOf(LastId, SoundLosses, {<<>>})

NextBackward ==
    \/ BwdAlloc
    \/ BwdCall
    \/ BwdZeroGrad
    \/ BwdBackwardAll

SpecBackward == Init /\ [][NextBackward]_vars

\* ---- SpecTrunc: backward passes from any id, with any limit
TruncAlloc == Live(TruncSteps) /\ LeafPhase /\ AllocOf(Values)

TruncCall == Live(TruncSteps) /\ Building /\ CallOf(Funcs, ValidIds)

TruncZeroGrad == Live(TruncSteps) /\ Len(tensors) > 0 /\ ZeroGradStep

TruncBackwardAll ==
    /\ Live(TruncSteps)
    /\ BackwardAllOf(ValidIds, SoundLosses,
                     Limits(Cardinality(DOMAIN computations)))

NextTrunc ==
    \/ TruncAlloc
    \/ TruncCall
    \/ TruncZeroGrad
    \/ TruncBackwardAll

SpecTrunc == Init /\ [][NextTrunc]_vars

\* ---- SpecForward: leaves are loaded and the values replayed
FwdAlloc == Live(FwdSteps) /\ LeafPhase /\ AllocOf(Values)

FwdCall == Live(FwdSteps) /\ Building /\ CallOf(Funcs, ValidIds)

FwdLoad == Live(FwdSteps) /\ LoadOf(ValidIds, Values)

FwdForward == Live(FwdSteps) /\ Len(tensors) > 0 /\ ForwardStep

NextForward ==
    \/ FwdAlloc
    \/ FwdCall
    \/ FwdLoad
    \/ FwdForward

SpecForward == Init /\ [][NextForward]_vars


\* ---- SpecEmbed: rows of a table are copied into a slot of a built
\* graph, and backward passes follow
EmbAlloc == Live(EmbedSteps) /\ LeafPhase /\ AllocOf(PairValues)

EmbCall == Live(EmbedSteps) /\ Building /\ CallOf({AddF, CoeffF(2)}, ValidIds)

EmbEmbed ==
    /\ Live(EmbedSteps) /\ Building /\ Len(tensors) > 0
    /\ \E id \in Ids, e \in Ids, x \in IndexTensors :
        Commit("embed", [NoArgs EXCEPT !.id = <<id>>, !.ids = <<e>>, !.t = <<x>>],
               Embed(G, id, e, x))

EmbBackwardAll ==
    /\ Live(EmbedSteps) /\ last.op \in {"embed", "backward_all"}
    /\ BackwardAllOf(ValidIds, {l \in SoundLosses : l.size = 1},
                     Limits(Cardinality(DOMAIN computations)))

NextEmbed ==
    \/ EmbAlloc
    \/ EmbCall
    \/ EmbEmbed
    \/ EmbBackwardAll

SpecEmbed == Init /\ [][NextEmbed]_vars


\* ---- SpecScenario: leaves of shape 1x1, sums of them, forward and
\* backward passes seeded by one-element losses
ScalarValues ==
    {Tn(<<1, 1>>, <<64>>), Tn(<<1, 1>>, <<36>>), Tn(<<1, 1>>, <<3>>)}

ScenarioLosses ==
    {[size |-> 1, c |-> 1, fails |-> FALSE],
     [size |-> 1, c |-> 3, fails |-> FALSE]}

ScnAlloc == Live(ScenarioSteps) /\ LeafPhase /\ AllocOf(ScalarValues)

ScnCall == Live(ScenarioSteps) /\ Building /\ CallOf({AddF}, ValidIds)

ScnLoad ==
    /\ Live(ScenarioSteps) /\ DOMAIN computations # {}
    /\ LoadOf(ValidIds \ DOMAIN computations, ScalarValues)

ScnForward == Live(ScenarioSteps) /\ DOMAIN computations # {} /\ ForwardStep

ScnBackwardAll ==
    /\ Live(ScenarioSteps) /\ DOMAIN computations # {}
    /\ BackwardAllOf(DOMAIN computations, ScenarioLosses, {<<>>, <<0>>})

NextScenario ==
    \/ ScnAlloc
    \/ ScnCall
    \/ ScnLoad
    \/ ScnForward
    \/ ScnBackwardAll

SpecScenario == Init /\ [][NextScenario]_vars


\* ---- SpecFuncs: the operations on their own, run and grad applied to
\* tensors that no graph holds
FuncValues ==
    {Tn(<<1, 1>>, <<3>>), Tn(<<1, 1>>, <<1>>), Tn(<<2>>, <<1, 3>>),
     Tn(<<2, 2>>, <<1, 2, 3, 4>>)}

\* the input lists an operation takes: two tensors for Add, one otherwise
FuncInputs(f) ==
    IF f.kind = "Add" THEN {<<a, b>> : a \in FuncValues, b \in FuncValues}
    ELSE {<<a>> : a \in FuncValues}

\* how a Result<_, TensorError> of an operation ends
ResultKind(kind) == IF kind = "err" THEN "TensorError" ELSE kind

FnRun ==
    /\ Live(FuncSteps)
    /\ \E f \in Funcs : \E inps \in FuncInputs(f) :
        LET r == Run(f, inps, FALSE)
        IN  Commit("run", [NoArgs EXCEPT !.f = <<f>>, !.inps = inps],
                   [Out(G, ResultKind(r.kind)) EXCEPT
                       !.retT = IF r.kind = "ok" THEN <<r.t>> ELSE <<>>])

FnGrad ==
    /\ Live(FuncSteps)
    /\ \E f \in Funcs, g \in FuncValues : \E inps \in FuncInputs(f) :
        LET r == GradRule(f, inps, g)
        IN  Commit("grad",
                   [NoArgs EXCEPT !.f = <<f>>, !.inps = inps,
                                  !.out_grad = <<g>>],
                   [Out(G, ResultKind(r.kind)) EXCEPT !.retT = r.ts])

NextFuncs ==
    \/ FnRun
    \/ FnGrad

SpecFuncs == Init /\ [][NextFuncs]_vars


\* ---- SpecAccum: gradients of several ranks are accumulated into the
\* slots of leaves
AccumValues ==
    {Tn(<<>>, <<5>>), Tn(<<2>>, <<1, 3>>), Tn(<<2, 1>>, <<1, 2>>),
     Tn(<<2, 2>>, <<1, 2, 3, 4>>), Tn(<<2, 2, 1>>, <<1, 2, 3, 4>>)}

AccAlloc == Live(AccumSteps) /\ AllocOf(PairValues)

AccLoadGrad == Live(AccumSteps) /\ LoadGradOf(ValidIds, PairValues)

AccAddGrad == Live(AccumSteps) /\ AddGradOf(Ids, AccumValues)

NextAccum ==
    \/ AccAlloc
    \/ AccLoadGrad
    \/ AccAddGrad

SpecAccum == Init /\ [][NextAccum]_vars

\* ===================================================== properties
IsZero(t) == \A i \in 1..Len(t.blob) : t.blob[i] = 0

\* the id argument of the last call
LastArgId == last.args.id[1]

\* the last call left the graph as it found it
GraphUnchanged == G = last.pre

\* C1: every input id stored in a computation record is strictly smaller
\* than the record's output id.
InputsPrecedeOutput ==
    \A out \in DOMAIN computations :
        \A j \in 1..Len(computations[out].inps) :
            computations[out].inps[j] < out

\* a call has just recorded an operation on two inputs
InputsPrecedeOutputWitness ==
    /\ last.op = "call" /\ last.kind = "ok"
    /\ last.retId[1] \in DOMAIN computations
    /\ Len(computations[last.retId[1]].inps) = 2

\* C2: between operations, every gradient slot has the shape of its
\* tensor slot.
GradShapeMatchesTensor ==
    \A i \in 1..Len(tensors) :
        i <= Len(grads) => grads[i].shape = tensors[i].shape

\* C3: load and load_grad with an id out of range return an error and
\* leave the graph unchanged.
LoadOutOfRangeReturnsError ==
    (last.op \in {"load", "load_grad"} /\ LastArgId >= Len(last.pre.tensors))
        => (last.kind \in {"TensorNotFound", "TensorError"} /\ GraphUnchanged)

\* C8: get, get_grad and name_of return the not-found error carrying the
\* id when the id is out of range and the slot's content otherwise; they
\* never panic and never change the graph.
AccessorsFindOrNotFound ==
    last.op \in {"get", "get_grad", "name_of"} =>
        /\ GraphUnchanged
        /\ last.kind # "panic"
        /\ LastArgId >= Len(last.pre.tensors) =>
              (last.kind = "TensorNotFound" /\ last.nf = <<LastArgId>>)
        /\ LastArgId < Len(last.pre.tensors) =>
              /\ last.kind = "ok"
              /\ last.op = "get" => last.retT = <<tensors[LastArgId + 1]>>
              /\ last.op = "get_grad" => last.retT = <<grads[LastArgId + 1]>>
              /\ last.op = "name_of" => last.retName = <<names[LastArgId + 1]>>

\* get_grad has just returned a gradient that differs from the tensor
AccessorsFindOrNotFoundWitness ==
    /\ last.op = "get_grad" /\ last.kind = "ok"
    /\ last.retT # <<tensors[LastArgId + 1]>>

\* C9: the tensors, grads and names arenas have the same length, also
\* after a call that returned an error part-way.
ArenasEqualLength ==
    Len(tensors) = Len(grads) /\ Len(grads) = Len(names)

\* a call on a non-empty graph has just failed in its forward rule
ArenasEqualLengthWitness ==
    /\ last.op = "call" /\ last.kind = "TensorError"
    /\ Len(tensors) >= 2

\* C10: zero_grad sets every element of every gradient slot to zero,
\* keeps each gradient slot's shape, and leaves tensors, names, arena
\* lengths and computation records unchanged.
ZeroGradResetsOnlyGrads ==
    last.op = "zero_grad" =>
        /\ Len(grads) = Len(last.pre.grads)
        /\ \A i \in 1..Len(grads) :
              grads[i].shape = last.pre.grads[i].shape /\ IsZero(grads[i])
        /\ tensors = last.pre.tensors
        /\ names = last.pre.names
        /\ computations = last.pre.computations

\* zero_grad has just cleared a non-zero gradient whose shape is not its
\* tensor's
ZeroGradResetsOnlyGradsWitness ==
    /\ last.op = "zero_grad"
    /\ \E i \in 1..Len(grads) :
          ~IsZero(last.pre.grads[i]) /\ grads[i].shape # tensors[i].shape

\* ---- truncated backward passes
Records(g) == DOMAIN g.computations

InputsOf(g, r) ==
    {g.computations[r].inps[j] : j \in 1..Len(g.computations[r].inps)}

\* the k records of g with the largest output ids
TopRecords(g, k) ==
    {r \in Records(g) : Cardinality({q \in Records(g) : q > r}) < k}

SeqRange(s) == {s[j] : j \in 1..Len(s)}

StrictlyDescending(s) == \A j \in 1..(Len(s) - 1) : s[j] > s[j + 1]

\* C4: backward_all(id, loss, Some(k)) invokes the local-derivative rule
\* only for the k records with the largest output ids, in descending id
\* order and without skipping any (all k of them when it succeeds); apart
\* from the seeded slot only gradient slots of inputs of those records
\* change.
TruncationVisitsTopK ==
    (last.op = "backward_all" /\ last.args.limit # <<>>) =>
        LET top == TopRecords(last.pre, last.args.limit[1])
            seen == SeqRange(last.visited)
            touched == {LastArgId} \cup UNION {InputsOf(last.pre, r) : r \in top}
        IN  /\ StrictlyDescending(last.visited)
            /\ seen \subseteq top
            /\ \A r \in top : (\E q \in seen : q < r) => r \in seen
            /\ last.kind = "ok" => seen = top
            /\ \A id \in 0..(Len(grads) - 1) :
                  id \notin touched => At(grads, id) = At(last.pre.grads, id)

\* a pass truncated to one record out of several has changed the gradient
\* of that record's input and kept the gradient of an input further
\* upstream
TruncationVisitsTopKWitness ==
    /\ last.op = "backward_all" /\ last.kind = "ok"
    /\ last.args.limit = <<1>>
    /\ Cardinality(Records(last.pre)) >= 2
    /\ Len(last.visited) = 1
    /\ \E id \in InputsOf(last.pre, last.visited[1]) :
          At(grads, id) # At(last.pre.grads, id)
    /\ \E r \in Records(last.pre) : \E id \in InputsOf(last.pre, r) :
          /\ r \notin SeqRange(last.visited)
          /\ id \notin InputsOf(last.pre, last.visited[1])
          /\ id # LastArgId
          /\ At(grads, id) = At(last.pre.grads, id)

\* ---- the multivariate chain rule on a diamond
\* the sum of the slices of t that have the given rank (t itself when its
\* rank is smaller)
RECURSIVE SumOf(_)
SumOf(ts) ==
    IF Len(ts) = 1 THEN Head(ts) ELSE TAdd(Head(ts), SumOf(Tail(ts))).t

Unbroadcast(t, rank) == IF Dim(t) >= rank THEN SumOf(Inners(t, rank)) ELSE t

\* what the record r propagates to its input x: the gradients its rule
\* gives for the positions of x, from r's accumulated gradient
Through(r, x) ==
    LET c == computations[r]
        out == GradRule(c.func, Gather(tensors, c.inps), At(grads, r)).ts
        at == {j \in 1..Len(c.inps) : c.inps[j] = x}
    IN  SumOf([k \in 1..Cardinality(at) |->
            Unbroadcast(out[CHOOSE j \in at :
                               Cardinality({i \in at : i < j}) = k - 1],
                        Dim(At(tensors, x)))])

\* leaf x feeds exactly the two records a and b, and c = Add(a, b)
Diamond(x, a, b, c) ==
    /\ {a, b, c} \subseteq Records(G) /\ a # b
    /\ x \notin Records(G)
    /\ computations[c].func.kind = "Add"
    /\ computations[c].inps = <<a, b>>
    /\ {r \in Records(G) : x \in InputsOf(G, r)} = {a, b}

\* an untruncated, successful backward pass from c on zero gradients
FullPassFrom(c) ==
    /\ last.op = "backward_all" /\ last.kind = "ok"
    /\ last.args.limit = <<>>
    /\ LastArgId = c
    /\ \A i \in 1..Len(last.pre.grads) : IsZero(last.pre.grads[i])

\* C5: on a diamond x -> a -> c, x -> b -> c with c = Add(a, b), after
\* zero_grad and an untruncated backward_all from c the gradient of x is
\* the sum of what a and what b propagate to it.
DiamondSumsBothPaths ==
    (last.op = "backward_all" /\ FullPassFrom(LastArgId)
        /\ LastArgId \in Records(G)
        /\ Len(computations[LastArgId].inps) = 2) =>
        LET c == LastArgId
            a == computations[c].inps[1]
            b == computations[c].inps[2]
        IN  \A x \in 0..(Len(tensors) - 1) :
                Diamond(x, a, b, c) =>
                    At(grads, x) = TAdd(Through(a, x), Through(b, x)).t

\* zero_grad and then a pass over a diamond whose two paths propagate
\* different, non-zero gradients to x
DiamondSumsBothPathsWitness ==
    /\ last.op = "backward_all" /\ last.afterZero
    /\ \E x, a, b \in 0..(Len(tensors) - 1) :
        /\ Diamond(x, a, b, LastArgId) /\ FullPassFrom(LastArgId)
        /\ ~IsZero(Through(a, x)) /\ ~IsZero(Through(b, x))
        /\ Through(a, x) # Through(b, x)

\* C6: a forward right after a forward with the same training flag leaves
\* every tensor slot as the first one left it.
ForwardTwiceSame ==
    (last.op = "forward" /\ last.again) => tensors = last.pre.tensors

\* the second of two successful forwards over a graph with records
ForwardTwiceSameWitness ==
    /\ last.op = "forward" /\ last.again
    /\ last.kind = "ok" /\ last.prevKind = "ok"
    /\ Cardinality(DOMAIN computations) >= 2

\* C7: two successive successful add_grad calls on one id, with gradients
\* g1 and g2 of the gradient slot's shape, leave the slot at g0 + g1 + g2
\* and every other gradient slot as it was.
AddGradTwiceSums ==
    [][(/\ last.op = "add_grad" /\ last.kind = "ok"
        /\ last'.op = "add_grad" /\ last'.kind = "ok"
        /\ last'.args.id = last.args.id
        /\ last.args.t[1].shape = At(last.pre.grads, LastArgId).shape
        /\ last'.args.t[1].shape = At(last.pre.grads, LastArgId).shape)
       => /\ At(grads', LastArgId) =
                Tn(At(last.pre.grads, LastArgId).shape,
                   [i \in 1..Size(At(last.pre.grads, LastArgId)) |->
                       At(last.pre.grads, LastArgId).blob[i]
                         + last.args.t[1].blob[i] + last'.args.t[1].blob[i]])
          /\ \A id \in 0..(Len(grads') - 1) :
                id # LastArgId => At(grads', id) = At(last.pre.grads, id)]_vars

\* ---- the table lookup
\* the ids that a backward pass on g seeded at id can write a gradient to
Reached(g, id) == {id} \cup UNION {InputsOf(g, r) : r \in Records(g)}

\* C11: embed creates no computation record and changes only the tensor
\* slot of its output id; a backward_all, from any output and with any
\* limit, changes only the gradient slots of its seed and of the inputs of
\* recorded operations, so never the table's slot on account of an embed.
EmbedLeavesNoRecord ==
    /\ last.op = "embed" =>
          /\ computations = last.pre.computations
          /\ grads = last.pre.grads
          /\ names = last.pre.names
          /\ Len(tensors) = Len(last.pre.tensors)
          /\ \A id \in 0..(Len(tensors) - 1) :
                id # LastArgId => At(tensors, id) = At(last.pre.tensors, id)
    /\ last.op = "backward_all" =>
          \A id \in 0..(Len(grads) - 1) :
              id \notin Reached(last.pre, LastArgId)
                  => At(grads, id) = At(last.pre.grads, id)

\* a backward pass right after an embed that rewrote the slot of out from
\* the table: the gradient of out has changed, the table's has not
EmbedLeavesNoRecordWitness ==
    /\ last.op = "backward_all" /\ last.kind = "ok"
    /\ last.afterEmbed # <<>>
    /\ LET out == last.afterEmbed[1]
           table == last.afterEmbed[2]
       IN  /\ out # table
           /\ \E r \in SeqRange(last.visited) : out \in InputsOf(last.pre, r)
           /\ At(grads, out) # At(last.pre.grads, out)
           /\ table \notin Reached(last.pre, LastArgId)
           /\ At(grads, table) = At(last.pre.grads, table)

\* ---- ids and records
\* C12: each successful alloc or call returns the arena length before the
\* call, which is above every id issued earlier; no call shrinks an arena,
\* and every id issued so far is resolved by get and get_grad.
IdsMonotonicAndValid ==
    /\ (last.op \in {"alloc", "call"} /\ last.kind = "ok") =>
          /\ last.retId = <<Len(last.pre.tensors)>>
          /\ Len(tensors) = Len(last.pre.tensors) + 1
          /\ Get(G, last.retId[1]).kind = "ok"
          /\ GetGrad(G, last.retId[1]).kind = "ok"
    /\ Len(tensors) >= Len(last.pre.tensors)
    /\ Len(grads) >= Len(last.pre.grads)
    /\ \A id \in 0..(Len(last.pre.tensors) - 1) :
          Get(G, id).kind = "ok" /\ GetGrad(G, id).kind = "ok"

\* a call has just returned the third id of the graph
IdsMonotonicAndValidWitness ==
    /\ last.op = "call" /\ last.kind = "ok"
    /\ last.retId = <<2>>
    /\ Len(last.pre.tensors) = 2

\* C13: an id has a computation record exactly when a successful call
\* returned it: only a successful call adds a record, keyed by the id it
\* returns; alloc adds none for the id it returns; and no call removes or
\* changes a record.
RecordsAreCallOutputs ==
    /\ \A k \in DOMAIN last.pre.computations :
          k \in DOMAIN computations
              /\ computations[k] = last.pre.computations[k]
    /\ DOMAIN computations \ DOMAIN last.pre.computations =
          IF last.op = "call" /\ last.kind = "ok" THEN {last.retId[1]} ELSE {}
    /\ (last.op = "alloc" /\ last.kind = "ok") =>
          last.retId[1] \notin DOMAIN computations
    /\ \A k \in DOMAIN computations : k < Len(tensors)

\* a leaf has just been allocated in a graph that already holds a record
RecordsAreCallOutputsWitness ==
    /\ last.op = "alloc" /\ last.kind = "ok"
    /\ DOMAIN computations # {}
    /\ last.retId[1] \notin DOMAIN computations

\* ---- the sum of two 1x1 leaves
\* the graph g is two 1x1 leaves a = 0 and b = 1 and c = 2 = Add(a, b)
AddOfTwoLeaves(g) ==
    /\ Len(g.tensors) = 3
    /\ DOMAIN g.computations = {2}
    /\ g.computations[2] = [inps |-> <<0, 1>>, func |-> AddF]
    /\ At(g.tensors, 0).shape = <<1, 1>> /\ At(g.tensors, 1).shape = <<1, 1>>

\* an untruncated backward pass from c on zero gradients has just
\* succeeded, with a loss of one element
SeededFromC ==
    /\ last.op = "backward_all" /\ last.kind = "ok"
    /\ LastArgId = 2 /\ last.args.limit # <<0>>
    /\ last.args.loss[1].size = 1
    /\ \A i \in 1..Len(last.pre.grads) : IsZero(last.pre.grads[i])

\* C14: for 1x1 leaves a and b and c = Add(a, b), forward leaves c = a + b
\* and backward_all from c with a one-element loss of gradient g leaves
\* grad_a = g and grad_b = g; a = 64, b = 36 gives c = 100, and seed 1
\* gives grad_a = grad_b = 1.
AddScenario ==
    AddOfTwoLeaves(last.pre) =>
        /\ last.op = "forward" =>
              /\ last.kind = "ok"
              /\ At(tensors, 2) =
                    Tn(<<1, 1>>, <<At(tensors, 0).blob[1] + At(tensors, 1).blob[1]>>)
              /\ (At(tensors, 0).blob = <<64>> /\ At(tensors, 1).blob = <<36>>)
                    => At(tensors, 2).blob = <<100>>
        /\ SeededFromC =>
              LET g == LossGrad(last.args.loss[1], At(last.pre.tensors, 2))
              IN  /\ At(grads, 0) = g /\ At(grads, 1) = g
                  /\ g.blob = <<1>> =>
                        (At(grads, 0) = Tn(<<1, 1>>, <<1>>)
                            /\ At(grads, 1) = Tn(<<1, 1>>, <<1>>))

\* scenario A: a = 64, b = 36, c = 100 and a pass seeded with 1 has left
\* gradient 1 in both leaves
AddScenarioWitness ==
    /\ AddOfTwoLeaves(last.pre) /\ SeededFromC
    /\ At(tensors, 0).blob = <<64>> /\ At(tensors, 1).blob = <<36>>
    /\ At(tensors, 2).blob = <<100>>
    /\ At(grads, 0).blob = <<1>> /\ At(grads, 1).blob = <<1>>
    /\ At(grads, 2).blob = <<1>>

\* ---- the local derivatives
Scaled(t, k) == Tn(t.shape, [i \in 1..Len(t.blob) |-> t.blob[i] * k])

\* x with its p-th element raised by one
Bump(x, p) == Tn(x.shape, [i \in 1..Len(x.blob) |-> x.blob[i] + (IF i = p THEN 1 ELSE 0)])

\* the change of the p-th output element of the one-input operation f at
\* x when the p-th input element is raised by one
Slope(f, x, p) ==
    Run(f, <<Bump(x, p)>>, FALSE).t.blob[p] - Run(f, <<x>>, FALSE).t.blob[p]

\* run accepts the inputs of the last grad, and the output gradient has
\* the shape of run's output
GradOfRun ==
    /\ last.op = "grad"
    /\ Run(last.args.f[1], last.args.inps, FALSE).kind = "ok"
    /\ last.args.out_grad[1].shape =
          Run(last.args.f[1], last.args.inps, FALSE).t.shape

\* C15: grad(inputs, g) returns one gradient per input, in input order,
\* the exact local derivative of run applied to g: Add returns g for both
\* inputs; Coeff with coefficient k returns k times g, and run k times the
\* input (k = 2, x = 3 gives 6, and gradient 2 for g = 1); Mask returns,
\* in the shape of its input, g where run keeps the input and 0 where run
\* replaces it by the fixed value.
GradIsLocalDerivative ==
    /\ (last.op = "run" /\ last.args.f[1].kind = "Coeff") =>
          /\ last.retT = <<Scaled(last.args.inps[1], last.args.f[1].coeff)>>
          /\ (last.args.f[1].coeff = 2
                 /\ last.args.inps[1] = Tn(<<1, 1>>, <<3>>))
                => last.retT = <<Tn(<<1, 1>>, <<6>>)>>
    /\ GradOfRun =>
          LET f == last.args.f[1]
              x == last.args.inps[1]
              g == last.args.out_grad[1]
          IN  /\ last.kind = "ok"
              /\ Len(last.retT) = Len(last.args.inps)
              /\ f.kind = "Add" => last.retT = <<g, g>>
              /\ f.kind = "Coeff" =>
                    /\ last.retT = <<Scaled(g, f.coeff)>>
                    /\ (f.coeff = 2 /\ g = Tn(<<1, 1>>, <<1>>))
                          => last.retT = <<Tn(<<1, 1>>, <<2>>)>>
              /\ f.kind # "Add" =>
                    /\ last.retT[1].shape = x.shape
                    /\ \A p \in 1..Size(x) :
                          last.retT[1].blob[p] = g.blob[p] * Slope(f, x, p)
              /\ f.kind = "Mask" =>
                    \A p \in 1..Size(x) :
                        Slope(f, x, p) =
                            (IF Run(f, <<x>>, FALSE).t.blob[p] = x.blob[p]
                             THEN 1 ELSE 0)

\* ---- the order of a backward pass
\* the position of record r in the sequence of visits, 0 when not visited
VisitOf(r) ==
    IF r \in SeqRange(last.visited)
    THEN CHOOSE j \in 1..Len(last.visited) : last.visited[j] = r
    ELSE 0

\* C16: an untruncated backward_all visits the records in strictly
\* descending id order without skipping any; when the rule of a record
\* is given the gradient slot of its output id, every record that takes
\* that id as an input has been visited before, and the gradient the rule
\* was given is the slot's gradient at the end of the pass: nothing is
\* added to it after its record was processed.
DescendingVisitsReadFinalGrads ==
    (last.op = "backward_all" /\ last.args.limit = <<>>) =>
        LET seen == SeqRange(last.visited)
        IN  /\ StrictlyDescending(last.visited)
            /\ seen \subseteq Records(last.pre)
            /\ \A r \in Records(last.pre) : (\E q \in seen : q < r) => r \in seen
            /\ last.kind = "ok" => seen = Records(last.pre)
            /\ Len(last.reads) = Len(last.visited)
            /\ \A j \in 1..Len(last.visited) :
                  /\ \A q \in Records(last.pre) :
                        last.visited[j] \in InputsOf(last.pre, q)
                            => (VisitOf(q) > 0 /\ VisitOf(q) < j)
                  /\ last.reads[j] = At(grads, last.visited[j])

\* a pass over a chain of two records: the later record was visited
\* first and its contribution was in the gradient the earlier record's
\* rule was given
DescendingVisitsReadFinalGradsWitness ==
    /\ last.op = "backward_all" /\ last.kind = "ok"
    /\ last.args.limit = <<>>
    /\ Len(last.visited) = 2
    /\ last.visited[2] \in InputsOf(last.pre, last.visited[1])
    /\ last.reads[2] # At(last.pre.grads, last.visited[2])
    /\ LastArgId = last.visited[1]

\* ---- the forward pass
\* the forward rule of record out applied to the tensor slots of g
Replay(g, out, training) ==
    Run(g.computations[out].func, Gather(g.tensors, g.computations[out].inps),
        training)

\* C17: after a successful forward, the tensor slot of every record's
\* output id is the record's forward rule applied to the current tensor
\* slots of its input ids, whatever the derived slots held before.
ForwardRefreshesEveryRecord ==
    (last.op = "forward" /\ last.kind = "ok") =>
        \A out \in Records(G) :
            /\ \A id \in InputsOf(G, out) : id < out
            /\ Replay(G, out, last.args.training).kind = "ok"
            /\ At(tensors, out) = Replay(G, out, last.args.training).t

\* a successful forward over a chain of two records whose derived slots
\* both held other values before the pass
ForwardRefreshesEveryRecordWitness ==
    /\ last.op = "forward" /\ last.kind = "ok"
    /\ \E a, b \in Records(G) :
        /\ a \in InputsOf(G, b)
        /\ At(last.pre.tensors, a) # At(tensors, a)
        /\ At(last.pre.tensors, b) # At(tensors, b)

\* ---- accumulation with reduction
\* g summed over its leading slices of the given rank and then added to
\* old when g has more dimensions than that, and g added to old otherwise
ReducedSum(old, g) ==
    IF Dim(g) >= Dim(old) + 1 THEN TAdd(old, SumOf(Inners(g, Dim(old))))
    ELSE TAdd(old, g)

\* C18: add_grad(id, g) adds to the gradient slot the sum of the leading
\* slices of g when the rank of g is at least the slot's rank plus one,
\* and g itself otherwise; a gradient of the slot's shape is added once,
\* element for element, and one with extra leading dimensions adds the
\* sum of its slices of the slot's shape; no other slot changes.
AddGradReducesLeadingSlices ==
    (last.op = "add_grad" /\ LastArgId < Len(last.pre.grads)) =>
        LET old == At(last.pre.grads, LastArgId)
            g == last.args.t[1]
            sum == ReducedSum(old, g)
        IN  /\ sum.ok => (last.kind = "ok" /\ At(grads, LastArgId) = sum.t)
            /\ ~sum.ok => (last.kind = "TensorError" /\ grads = last.pre.grads)
            /\ (last.kind = "ok" /\ g.shape = old.shape) =>
                  At(grads, LastArgId) =
                      Tn(old.shape, [i \in 1..Size(old) |->
                                        old.blob[i] + g.blob[i]])
            /\ \A id \in 0..(Len(grads) - 1) :
                  id # LastArgId => At(grads, id) = At(last.pre.grads, id)
            /\ tensors = last.pre.tensors

\* the record whose rule the last pass invoked last
LastVisited == last.visited[Len(last.visited)]

\* C19: when the forward rule of record j fails during forward, the pass
\* returns that error at once: the records up to j were invoked and none
\* after it, every derived slot below j holds its refreshed value, slot j
\* and every slot above it hold their values from before the call, and
\* gradients, names, arena lengths and records are unchanged.
ForwardStopsAtFailure ==
    (last.op = "forward" /\ last.kind # "ok") =>
        /\ last.kind = "TensorError"
        /\ Len(last.visited) > 0
        /\ SeqRange(last.visited) = {r \in Records(last.pre) : r <= LastVisited}
        /\ \A i \in 1..(Len(last.visited) - 1) :
              last.visited[i] < last.visited[i + 1]
        /\ Replay(G, LastVisited, last.args.training).kind = "err"
        /\ \A r \in Records(last.pre) :
              r < LastVisited =>
                  At(tensors, r) = Replay(G, r, last.args.training).t
        /\ Len(tensors) = Len(last.pre.tensors)
        /\ \A id \in 0..(Len(tensors) - 1) :
              (id >= LastVisited \/ id \notin Records(last.pre))
                  => At(tensors, id) = At(last.pre.tensors, id)
        /\ grads = last.pre.grads
        /\ names = last.pre.names
        /\ computations = last.pre.computations

\* a forward has failed at the second record of a chain after it had
\* refreshed the first
ForwardStopsAtFailureWitness ==
    /\ last.op = "forward" /\ last.kind = "TensorError"
    /\ Len(last.visited) = 2
    /\ last.visited[1] \in InputsOf(G, last.visited[2])
    /\ At(tensors, last.visited[1]) # At(last.pre.tensors, last.visited[1])
    /\ At(tensors, last.visited[2]) = At(last.pre.tensors, last.visited[2])

\* ---- failed calls
\* the input ids of the call c that are not below the arena length n
OutOfRange(c, n) == {j \in 1..Len(c.args.ids) : c.args.ids[j] >= n}

\* C20: call fails with the not-found error when an input id is not below
\* the arena length; a call that fails, on an invalid id or in its forward
\* rule, appends no tensor, gradient or name slot and inserts no record,
\* and the next successful alloc or call returns the id it would have
\* returned without the failed call.
FailedCallIsAtomic ==
    [][/\ last'.op = "call" =>
            /\ OutOfRange(last', Len(tensors)) # {} =>
                  (last'.kind = "TensorNotFound"
                      /\ \E j \in OutOfRange(last', Len(tensors)) :
                            last'.nf = <<last'.args.ids[j]>>)
            /\ last'.kind # "ok" =>
                  /\ tensors' = tensors /\ grads' = grads
                  /\ names' = names /\ computations' = computations
       /\ (/\ last.op = "call"
           /\ last.kind \in {"TensorNotFound", "TensorError"}
           /\ last'.op \in {"alloc", "call"} /\ last'.kind = "ok")
          => last'.retId = <<Len(last.pre.tensors)>>]_vars

\* a call that succeeds right after a call that failed on an invalid id
FailedCallIsAtomicWitness ==
    /\ last.op = "call" /\ last.kind = "ok"
    /\ last.again /\ last.prevKind = "TensorNotFound"
    /\ last.retId = <<Len(last.pre.tensors)>>
    /\ Len(last.pre.tensors) >= 1

====
